---- MODULE Spec2Model ----
(***************************************************************************)
(* Model of the lightspeed repository: the RelativisticClock component     *)
(* (src/unnamed/part_000, lines 141-402) and the relativity utilities      *)
(* (src/src/utils/relativity.ts) as called by App (src/src/App.tsx).       *)
(*                                                                         *)
(* Numbers.  Date.now() is an integer count of milliseconds.  The clock     *)
(* accumulators hold seconds; deltaTime = (now - last) / 1000 is kept here  *)
(* exactly, as a count of 1/MsPerSecond seconds, so spacecraftTime = 1500   *)
(* stands for 1.5 s.  Dilation factors given to the clock are drawn from    *)
(* small integers, so earthTime is exact in the same unit.  The numbers of  *)
(* relativity.ts are exact fractions with the IEEE 754 special values; the  *)
(* rounding of doubles is not modelled.                                     *)
(*                                                                         *)
(* Spec is the clock component; EngineSpec is App's render and the exports  *)
(* of relativity.ts, each applied to arguments drawn from small sets.       *)
(***************************************************************************)
EXTENDS Integers, Sequences, FiniteSets, TLC

\* (now - lastUpdateRef.current) / 1000: milliseconds per second
MsPerSecond == 1000

\* Largest wall-clock reading (ms) the model lets Date.now() return.
MaxWall == 2000
\* How often the wall clock may be set back (NTP step, user changing the time).
MaxBackJumps == 1
\* Amounts by which Date.now() moves between two steps of the program.
WallSteps == {500, 1000, 0 - 1000}
\* Values of the timeDilationFactor prop.  App passes journey.timeDilationFactor,
\* a Lorentz factor, so every value is >= 1.
Factors == {1, 2, 5}

\* ---- JavaScript numbers --------------------------------------------------
\* A number is an exact fraction num/den in lowest terms (den > 0), or one of
\* Infinity, -Infinity, NaN.  Arithmetic follows IEEE 754 for the special
\* values and is exact on the fractions; only Sqrt rounds, and only when its
\* argument is not the square of a fraction.

\* Denominator to which Sqrt rounds down a root that is not a fraction.
SqrtPrecision == 100

RECURSIVE GCD(_, _)
GCD(a, b) == IF b = 0 THEN a ELSE GCD(b, a % b)

Abs(n) == IF n < 0 THEN 0 - n ELSE n

Fin(n, d) ==
  LET g == GCD(Abs(n), Abs(d))
      sgn == IF d < 0 THEN 0 - 1 ELSE 1
  IN [kind |-> "finite", num |-> sgn * (n \div g), den |-> sgn * (d \div g)]

Num(n) == [kind |-> "finite", num |-> n, den |-> 1]
PosInfinity == [kind |-> "Infinity", num |-> 1, den |-> 0]
NegInfinity == [kind |-> "-Infinity", num |-> 0 - 1, den |-> 0]
NaN == [kind |-> "NaN", num |-> 0, den |-> 0]

IsNaN(x) == x.kind = "NaN"
IsFinite(x) == x.kind = "finite"
Signum(x) == IF x.num > 0 THEN 1 ELSE IF x.num < 0 THEN 0 - 1 ELSE 0
Signed(sgn) == IF sgn < 0 THEN NegInfinity ELSE PosInfinity

\* x < y and x >= y of JavaScript: false as soon as one side is NaN
Lt(x, y) ==
  /\ ~IsNaN(x)
  /\ ~IsNaN(y)
  /\ IF IsFinite(x) /\ IsFinite(y) THEN x.num * y.den < y.num * x.den
     ELSE IF IsFinite(x) THEN y.kind = "Infinity"
     ELSE IF IsFinite(y) THEN x.kind = "-Infinity"
     ELSE x.kind = "-Infinity" /\ y.kind = "Infinity"

Ge(x, y) == ~IsNaN(x) /\ ~IsNaN(y) /\ ~Lt(x, y)

Neg(x) ==
  IF IsNaN(x) THEN NaN
  ELSE IF IsFinite(x) THEN Fin(0 - x.num, x.den)
  ELSE Signed(0 - Signum(x))

Add(x, y) ==
  IF IsNaN(x) \/ IsNaN(y) THEN NaN
  ELSE IF IsFinite(x) /\ IsFinite(y)
       THEN Fin(x.num * y.den + y.num * x.den, x.den * y.den)
  ELSE IF IsFinite(x) THEN y
  ELSE IF IsFinite(y) THEN x
  ELSE IF x.kind = y.kind THEN x ELSE NaN

Sub(x, y) == Add(x, Neg(y))

Mul(x, y) ==
  IF IsNaN(x) \/ IsNaN(y) THEN NaN
  ELSE IF IsFinite(x) /\ IsFinite(y) THEN Fin(x.num * y.num, x.den * y.den)
  ELSE IF Signum(x) = 0 \/ Signum(y) = 0 THEN NaN
  ELSE Signed(Signum(x) * Signum(y))

\* x / y; a zero divisor is +0, the only zero the callers produce
Div(x, y) ==
  IF IsNaN(x) \/ IsNaN(y) THEN NaN
  ELSE IF ~IsFinite(x)
       THEN IF ~IsFinite(y) THEN NaN
            ELSE Signed(Signum(x) * (IF Signum(y) < 0 THEN 0 - 1 ELSE 1))
  ELSE IF ~IsFinite(y) THEN Num(0)
  ELSE IF y.num = 0
       THEN IF x.num = 0 THEN NaN ELSE Signed(Signum(x))
  ELSE Fin(x.num * y.den, x.den * y.num)

\* floor of n/d for d > 0
FloorDiv(n, d) == IF n >= 0 THEN n \div d ELSE 0 - ((0 - n + d - 1) \div d)

\* Math.floor
Floor(x) == IF IsFinite(x) THEN Num(FloorDiv(x.num, x.den)) ELSE x

\* Math.round: the nearest integer, a half going up
Round(x) == IF IsFinite(x) THEN Floor(Add(x, Fin(1, 2))) ELSE x

\* x % y: the remainder has the sign of x
Mod(x, y) ==
  IF IsNaN(x) \/ IsNaN(y) \/ ~IsFinite(x) THEN NaN
  ELSE IF ~IsFinite(y) THEN x
  ELSE IF y.num = 0 THEN NaN
  ELSE LET q == Div(x, y)
           t == IF q.num >= 0 THEN Floor(q) ELSE Neg(Floor(Neg(q)))
       IN Sub(x, Mul(y, t))

\* the root lies in lo..hi
RECURSIVE ISqrtBetween(_, _, _)
ISqrtBetween(n, lo, hi) ==
  IF lo >= hi THEN lo
  ELSE LET mid == (lo + hi + 1) \div 2
       IN IF mid * mid <= n THEN ISqrtBetween(n, mid, hi)
          ELSE ISqrtBetween(n, lo, mid - 1)

\* the integer square root, rounded down (46340 is the root of 2^31)
ISqrt(n) == ISqrtBetween(n, 0, IF n < 46340 THEN n ELSE 46340)

IsSquare(n) == ISqrt(n) * ISqrt(n) = n

\* Math.sqrt
Sqrt(x) ==
  IF IsNaN(x) \/ Lt(x, Num(0)) THEN NaN
  ELSE IF ~IsFinite(x) THEN x
  ELSE IF IsSquare(x.num) /\ IsSquare(x.den)
       THEN Fin(ISqrt(x.num), ISqrt(x.den))
  ELSE IF IsSquare(x.den)
       THEN Fin(ISqrt(x.num * SqrtPrecision * SqrtPrecision),
                ISqrt(x.den) * SqrtPrecision)
  ELSE Fin(ISqrt(x.num * x.den * SqrtPrecision * SqrtPrecision),
           x.den * SqrtPrecision)

\* x / y on integers
Quotient(a, b) == Div(Num(a), Num(b))

SameNumber(x, y) == ~IsNaN(x) /\ x = y

\* ---- relativity.ts -------------------------------------------------------
\* A call either returns a value or throws an Error.
NoValue == [kind |-> "none", num |-> 0, den |-> 0]
Ok(v) == [threw |-> FALSE, error |-> "", value |-> v]
Throw(msg) == [threw |-> TRUE, error |-> msg, value |-> NoValue]

\* SPEED_OF_LIGHT, taken as the unit: momenta are carried in kg c and
\* energies in kg c^2 (299792458^2 is beyond TLC's integers).
SPEED_OF_LIGHT_UNIT == Num(1)
DAYS_PER_YEAR == Fin(36525, 100)
HOURS_PER_DAY == 24
DAYS_PER_MONTH == Fin(3044, 100)

\* A Lorentz factor that leaves the square out: 1 / sqrt(1 - 0).
calculateLorentzFactorAtRest(velocityFraction) ==
  IF Lt(velocityFraction, Num(0)) \/ Ge(velocityFraction, Num(1))
  THEN Throw("Velocity fraction must be between 0 and 1 (exclusive of 1)")
  ELSE Ok(Div(Num(1), Sqrt(Sub(Num(1), Num(0)))))

\* A Lorentz factor whose range check lets v = 1 through.
calculateLorentzFactorAcceptingOne(velocityFraction) ==
  IF Lt(velocityFraction, Num(0)) \/ Lt(Num(1), velocityFraction)
  THEN Throw("Velocity fraction must be between 0 and 1 (exclusive of 1)")
  ELSE Ok(Div(Num(1),
              Sqrt(Sub(Num(1), Mul(velocityFraction, velocityFraction)))))

calculateLorentzFactor(velocityFraction) ==
  IF Lt(velocityFraction, Num(0)) \/ Ge(velocityFraction, Num(1))
  THEN Throw("Velocity fraction must be between 0 and 1 (exclusive of 1)")
  ELSE Ok(Div(Num(1),
              Sqrt(Sub(Num(1), Mul(velocityFraction, velocityFraction)))))

calculateTimeDilation(properTime, velocityFraction) ==
  LET gamma == calculateLorentzFactor(velocityFraction)
  IN IF gamma.threw THEN gamma ELSE Ok(Mul(properTime, gamma.value))

\* A length contraction that multiplies by the Lorentz factor.
calculateLengthContractionDilating(properLength, velocityFraction) ==
  LET gamma == calculateLorentzFactor(velocityFraction)
  IN IF gamma.threw THEN gamma ELSE Ok(Mul(properLength, gamma.value))

calculateLengthContraction(properLength, velocityFraction) ==
  LET gamma == calculateLorentzFactor(velocityFraction)
  IN IF gamma.threw THEN gamma ELSE Ok(Div(properLength, gamma.value))

calculateRelativisticMomentum(restMass, velocityFraction) ==
  LET gamma == calculateLorentzFactor(velocityFraction)
      velocity == Mul(velocityFraction, SPEED_OF_LIGHT_UNIT)
  IN IF gamma.threw THEN gamma
     ELSE Ok(Mul(Mul(gamma.value, restMass), velocity))

calculateRelativisticKineticEnergy(restMass, velocityFraction) ==
  LET gamma == calculateLorentzFactor(velocityFraction)
      restEnergy ==
        Mul(restMass, Mul(SPEED_OF_LIGHT_UNIT, SPEED_OF_LIGHT_UNIT))
  IN IF gamma.threw THEN gamma
     ELSE Ok(Mul(Sub(gamma.value, Num(1)), restEnergy))

calculateTotalRelativisticEnergy(restMass, velocityFraction) ==
  LET gamma == calculateLorentzFactor(velocityFraction)
      restEnergy ==
        Mul(restMass, Mul(SPEED_OF_LIGHT_UNIT, SPEED_OF_LIGHT_UNIT))
  IN IF gamma.threw THEN gamma ELSE Ok(Mul(gamma.value, restEnergy))

\* An inverse that leaves gamma unsquared.
velocityFromLorentzFactorUnsquared(gamma) ==
  IF Lt(gamma, Num(1)) THEN Throw("Lorentz factor must be >= 1")
  ELSE Ok(Sqrt(Sub(Num(1), Div(Num(1), gamma))))

velocityFromLorentzFactor(gamma) ==
  IF Lt(gamma, Num(1)) THEN Throw("Lorentz factor must be >= 1")
  ELSE Ok(Sqrt(Sub(Num(1), Div(Num(1), Mul(gamma, gamma)))))

fractionToPercentage(fraction) ==
  IF Lt(fraction, Num(0)) \/ Ge(fraction, Num(1))
  THEN Throw("Fraction must be between 0 and 1 (exclusive of 1)")
  ELSE Ok(Mul(fraction, Num(100)))

\* A contracted distance that multiplies by the Lorentz factor.
calculateContractedDistanceTimes(properDistanceLightYears, velocityFraction) ==
  LET gamma == calculateLorentzFactor(velocityFraction)
  IN IF gamma.threw THEN gamma
     ELSE Ok(Mul(properDistanceLightYears, gamma.value))

calculateContractedDistance(properDistanceLightYears, velocityFraction) ==
  LET gamma == calculateLorentzFactor(velocityFraction)
  IN IF gamma.threw THEN gamma
     ELSE Ok(Div(properDistanceLightYears, gamma.value))

\* A travel time that multiplies by the velocity.
calculateTravelTimeInYearsMultiplying(distanceLightYears, velocityFraction) ==
  Mul(distanceLightYears, velocityFraction)

\* No check of its arguments: it never throws.
calculateTravelTimeInYears(distanceLightYears, velocityFraction) ==
  Div(distanceLightYears, velocityFraction)

calculateProperTravelTimeInYears(distanceLightYears, velocityFraction) ==
  LET coordinateTimeYears ==
        calculateTravelTimeInYears(distanceLightYears, velocityFraction)
      gamma == calculateLorentzFactor(velocityFraction)
  IN IF gamma.threw THEN gamma
     ELSE Ok(Div(coordinateTimeYears, gamma.value))

\* A component of FormattedTime that the branch taken leaves out.
Absent == [kind |-> "absent", num |-> 0, den |-> 0]

\* A formatTime whose months branch starts at 30 days.
formatTimeMonthOfThirtyDays(timeInYears) ==
  LET totalDays == Mul(timeInYears, DAYS_PER_YEAR)
      dayFraction == Mod(totalDays, Num(1))
  IN IF Ge(timeInYears, Num(1))
     THEN [years |-> timeInYears, months |-> Absent, days |-> Absent,
           hours |-> Absent, totalYears |-> timeInYears]
     ELSE IF Ge(totalDays, Num(30))
     THEN [years |-> Absent,
           months |-> Floor(Div(totalDays, DAYS_PER_MONTH)),
           days |-> Floor(Mod(totalDays, DAYS_PER_MONTH)),
           hours |-> Floor(Mul(dayFraction, Num(HOURS_PER_DAY))),
           totalYears |-> timeInYears]
     ELSE IF Ge(totalDays, Num(1))
     THEN [years |-> Absent, months |-> Absent,
           days |-> Floor(totalDays),
           hours |-> Floor(Mul(dayFraction, Num(HOURS_PER_DAY))),
           totalYears |-> timeInYears]
     ELSE [years |-> Absent, months |-> Absent, days |-> Absent,
           hours |-> Div(Round(Mul(Mul(totalDays, Num(HOURS_PER_DAY)),
                                   Num(10))),
                         Num(10)),
           totalYears |-> timeInYears]

\* A formatTime whose hours-only branch leaves the tenths of an hour
\* undivided.
formatTimeInTenthsOfHours(timeInYears) ==
  LET totalDays == Mul(timeInYears, DAYS_PER_YEAR)
      dayFraction == Mod(totalDays, Num(1))
  IN IF Ge(timeInYears, Num(1))
     THEN [years |-> timeInYears, months |-> Absent, days |-> Absent,
           hours |-> Absent, totalYears |-> timeInYears]
     ELSE IF Ge(totalDays, DAYS_PER_MONTH)
     THEN [years |-> Absent,
           months |-> Floor(Div(totalDays, DAYS_PER_MONTH)),
           days |-> Floor(Mod(totalDays, DAYS_PER_MONTH)),
           hours |-> Floor(Mul(dayFraction, Num(HOURS_PER_DAY))),
           totalYears |-> timeInYears]
     ELSE IF Ge(totalDays, Num(1))
     THEN [years |-> Absent, months |-> Absent,
           days |-> Floor(totalDays),
           hours |-> Floor(Mul(dayFraction, Num(HOURS_PER_DAY))),
           totalYears |-> timeInYears]
     ELSE [years |-> Absent, months |-> Absent, days |-> Absent,
           hours |-> Round(Mul(Mul(totalDays, Num(HOURS_PER_DAY)),
                               Num(10))),
           totalYears |-> timeInYears]

\* formatTime without the canonical string.  It never throws.
formatTime(timeInYears) ==
  LET totalDays == Mul(timeInYears, DAYS_PER_YEAR)
      dayFraction == Mod(totalDays, Num(1))
  IN IF Ge(timeInYears, Num(1))
     THEN [years |-> timeInYears, months |-> Absent, days |-> Absent,
           hours |-> Absent, totalYears |-> timeInYears]
     ELSE IF Ge(totalDays, DAYS_PER_MONTH)
     THEN [years |-> Absent,
           months |-> Floor(Div(totalDays, DAYS_PER_MONTH)),
           days |-> Floor(Mod(totalDays, DAYS_PER_MONTH)),
           hours |-> Floor(Mul(dayFraction, Num(HOURS_PER_DAY))),
           totalYears |-> timeInYears]
     ELSE IF Ge(totalDays, Num(1))
     THEN [years |-> Absent, months |-> Absent,
           days |-> Floor(totalDays),
           hours |-> Floor(Mul(dayFraction, Num(HOURS_PER_DAY))),
           totalYears |-> timeInYears]
     ELSE [years |-> Absent, months |-> Absent, days |-> Absent,
           hours |-> Div(Round(Mul(Mul(totalDays, Num(HOURS_PER_DAY)),
                                   Num(10))),
                         Num(10)),
           totalYears |-> timeInYears]

calculateDistanceEffects(properDistanceLightYears, velocityFraction) ==
  LET contractedDistance ==
        calculateContractedDistance(properDistanceLightYears,
                                    velocityFraction)
      coordinateTime ==
        calculateTravelTimeInYears(properDistanceLightYears, velocityFraction)
      properTime ==
        calculateProperTravelTimeInYears(properDistanceLightYears,
                                         velocityFraction)
  IN IF contractedDistance.threw THEN contractedDistance
     ELSE IF properTime.threw THEN properTime
     ELSE Ok([properDistance |-> properDistanceLightYears,
              contractedDistance |-> contractedDistance.value,
              contractionFactor |->
                Div(contractedDistance.value, properDistanceLightYears),
              coordinateTime |-> coordinateTime,
              properTime |-> properTime.value,
              properTimeFormatted |-> formatTime(properTime.value),
              coordinateTimeFormatted |-> formatTime(coordinateTime),
              timeDilationFactor |-> Div(coordinateTime, properTime.value)])

calculateAllEffects(velocityFraction) ==
  LET gamma == calculateLorentzFactor(velocityFraction)
      percentage == fractionToPercentage(velocityFraction)
  IN IF gamma.threw THEN gamma
     ELSE IF percentage.threw THEN percentage
     ELSE Ok([velocityFraction |-> velocityFraction,
              percentageOfLightSpeed |-> percentage.value,
              lorentzFactor |-> gamma.value,
              timeDilationFactor |-> gamma.value,
              lengthContractionFactor |-> Div(Num(1), gamma.value)])

calculateAllEffectsWithDistance(velocityFraction, distanceLightYears) ==
  LET basicEffects == calculateAllEffects(velocityFraction)
      distanceEffects ==
        calculateDistanceEffects(distanceLightYears, velocityFraction)
  IN IF basicEffects.threw THEN basicEffects
     ELSE IF distanceEffects.threw THEN distanceEffects
     ELSE Ok([velocityFraction |-> basicEffects.value.velocityFraction,
              percentageOfLightSpeed |->
                basicEffects.value.percentageOfLightSpeed,
              lorentzFactor |-> basicEffects.value.lorentzFactor,
              timeDilationFactor |-> basicEffects.value.timeDilationFactor,
              lengthContractionFactor |->
                basicEffects.value.lengthContractionFactor,
              properDistance |-> distanceEffects.value.properDistance,
              contractedDistance |-> distanceEffects.value.contractedDistance,
              coordinateTime |-> distanceEffects.value.coordinateTime,
              properTime |-> distanceEffects.value.properTime,
              properTimeFormatted |->
                distanceEffects.value.properTimeFormatted,
              coordinateTimeFormatted |->
                distanceEffects.value.coordinateTimeFormatted])

\* ---- App.tsx -------------------------------------------------------------
\* ASTRONOMICAL_DISTANCES, in light years (the entries the model selects)
ASTRONOMICAL_DISTANCES ==
  [PROXIMA_CENTAURI |-> Fin(424, 100), SIRIUS |-> Fin(86, 10),
   POLARIS |-> Num(433)]

\* The fraction App substitutes when speed / 2 reaches 1.  The source has
\* 0.999999999999, whose denominator is beyond TLC's integers; 24/25 stands
\* for it: below 1, and above speed / 2 for every other slider position here.
ClampedSpeedFraction == Fin(24, 25)

\* A speed fraction without the second line.
SpeedFractionUnclamped(speed) == Div(speed, Num(2))

\* let speedFraction = speed / 2;
\* speedFraction = speedFraction >= 1 ? 0.999999999999 : speedFraction;
SpeedFraction(speed) ==
  LET speedFraction == Div(speed, Num(2))
  IN IF Ge(speedFraction, Num(1)) THEN ClampedSpeedFraction ELSE speedFraction

\* const journey = calculateAllEffectsWithDistance(speedFraction, ...)
Journey(speed, selectedDestination) ==
  calculateAllEffectsWithDistance(SpeedFraction(speed),
                                  ASTRONOMICAL_DISTANCES[selectedDestination])

\* useState(0.0)
InitialSpeed == Num(0)
\* useState("PROXIMA_CENTAURI")
InitialDestination == "PROXIMA_CENTAURI"

NoInterval == "null"
IntervalId == "interval"

VARIABLES
  wall,                    \* what Date.now() returns now
  spacecraftTime,          \* useState(0): traveler seconds (x MsPerSecond)
  earthTime,               \* useState(0): observer seconds (x MsPerSecond)
  intervalRef,             \* useRef(null): the setInterval handle
  activeIntervals,         \* handles setInterval gave out and nobody cleared
  lastUpdateRef,           \* useRef(Date.now())
  currentTimeDilationRef,  \* useRef(timeDilationFactor)
  timeDilationFactor,      \* the prop of the last render
  effectPending,           \* the [timeDilationFactor] effect has not run yet
  phase,                   \* "rendered" | "running" | "unmounted"
  call,                    \* the last render of App, or the last direct
                           \* call of a relativity.ts export
  ret,                     \* what it returned or threw
  \* history (not program state)
  op,                      \* the last step taken
  pre,                     \* the state before it, and the step before it
  startInstant,            \* Date.now() at mount or at the last reset
  backJumps,               \* times the wall clock was set back
  fwdStage                 \* progress through the reference scenario of spec 8

clockVars == <<wall, spacecraftTime, earthTime, intervalRef, activeIntervals,
               lastUpdateRef, currentTimeDilationRef, timeDilationFactor,
               effectPending, phase, op, pre, startInstant, backJumps,
               fwdStage>>

engineVars == <<call, ret>>

vars == <<clockVars, engineVars>>

Snapshot == [op |-> op, now |-> wall,
             spacecraftTime |-> spacecraftTime, earthTime |-> earthTime,
             lastUpdateRef |-> lastUpdateRef,
             currentTimeDilationRef |-> currentTimeDilationRef]

Seconds(n) == n * MsPerSecond

\* ---- the component -------------------------------------------------------

\* deltaTime of the interval callback, in 1/MsPerSecond seconds
DeltaTime(now, last) == now - last

\* A tick that scales the spacecraft's delta by the factor as well.
SpacecraftAfterTickDilated(prev, deltaTime) ==
  prev + deltaTime * currentTimeDilationRef

\* A tick that takes the delta off the spacecraft clock.
SpacecraftAfterTickBackwards(prev, deltaTime) == prev - deltaTime

\* setSpacecraftTime((prev) => prev + deltaTime)
SpacecraftAfterTick(prev, deltaTime) == prev + deltaTime

\* A tick that adds the bare delta to the Earth clock as well.
EarthAfterTickUnscaled(prev, deltaTime, factor) == prev + deltaTime

\* setEarthTime((prev) => prev + deltaTime * currentTimeDilationRef.current)
EarthAfterTick(prev, deltaTime, factor) == prev + deltaTime * factor

\* const accumulatedTimeRatio = earthTime > 0 ? earthTime / spacecraftTime : 1
AccumulatedTimeRatio(earth, spacecraft) ==
  IF earth > 0 THEN Quotient(earth, spacecraft) ELSE Quotient(1, 1)

\* State after the first render: useState(0), useRef(Date.now()),
\* useRef(timeDilationFactor); both effects are still to run.
ClockInit ==
  /\ wall = 0
  /\ spacecraftTime = 0
  /\ earthTime = 0
  /\ intervalRef = NoInterval
  /\ activeIntervals = {}
  /\ lastUpdateRef = wall
  /\ timeDilationFactor \in Factors
  /\ currentTimeDilationRef = timeDilationFactor
  /\ effectPending = TRUE
  /\ phase = "rendered"
  /\ op = "render"
  /\ startInstant = wall
  /\ backJumps = 0
  /\ fwdStage = IF timeDilationFactor = 2 THEN 0 ELSE 0 - 1
  /\ pre = Snapshot

History(name) ==
  /\ op' = name
  /\ pre' = Snapshot

\* Date.now() moves on (or is set back) between two steps of the program.
ClockAdvance ==
  \E d \in WallSteps :
    /\ wall + d \in 0..MaxWall
    /\ d < 0 => backJumps < MaxBackJumps
    /\ wall' = wall + d
    /\ backJumps' = IF d < 0 THEN backJumps + 1 ELSE backJumps
    /\ UNCHANGED engineVars
    /\ UNCHANGED <<spacecraftTime, earthTime, intervalRef, activeIntervals,
                   lastUpdateRef, currentTimeDilationRef, timeDilationFactor,
                   effectPending, phase, op, pre, startInstant, fwdStage>>

\* A mount effect that starts the interval and leaves lastUpdateRef at the
\* Date.now() of the first render.
MountKeepingLastUpdate ==
  /\ phase = "rendered"
  /\ currentTimeDilationRef' = timeDilationFactor
  /\ effectPending' = FALSE
  /\ intervalRef' = IntervalId
  /\ activeIntervals' = activeIntervals \cup {IntervalId}
  /\ phase' = "running"
  /\ startInstant' = wall
  /\ History("mount")
  /\ UNCHANGED engineVars
  /\ UNCHANGED <<wall, spacecraftTime, earthTime, lastUpdateRef,
                 timeDilationFactor, backJumps, fwdStage>>

\* The two effects of the first commit, in source order: the
\* [timeDilationFactor] effect, then the [] effect that starts the interval.
Mount ==
  /\ phase = "rendered"
  /\ currentTimeDilationRef' = timeDilationFactor
  /\ effectPending' = FALSE
  /\ lastUpdateRef' = wall
  /\ intervalRef' = IntervalId
  /\ activeIntervals' = activeIntervals \cup {IntervalId}
  /\ phase' = "running"
  /\ startInstant' = wall
  /\ History("mount")
  /\ UNCHANGED engineVars
  /\ UNCHANGED <<wall, spacecraftTime, earthTime, timeDilationFactor,
                 backJumps, fwdStage>>

\* A callback that may also run between a commit and its effects.
TickBeforeEffects ==
  /\ intervalRef \in activeIntervals
  /\ LET now == wall
         deltaTime == DeltaTime(now, lastUpdateRef)
     IN /\ spacecraftTime' = SpacecraftAfterTick(spacecraftTime, deltaTime)
        /\ earthTime' =
             EarthAfterTick(earthTime, deltaTime, currentTimeDilationRef)
        /\ lastUpdateRef' = now
        /\ fwdStage' =
             IF deltaTime = 0 THEN fwdStage
             ELSE IF fwdStage \in {0, 3} /\ deltaTime = Seconds(1)
                  THEN fwdStage + 1
                  ELSE 0 - 1
  /\ History("tick")
  /\ UNCHANGED engineVars
  /\ UNCHANGED <<wall, intervalRef, activeIntervals, currentTimeDilationRef,
                 timeDilationFactor, effectPending, phase, startInstant,
                 backJumps>>

\* The setInterval callback.  It is a task of its own, and React runs the
\* effects of a commit that a discrete event caused (the slider's change)
\* within the task of that commit: no callback runs while an effect of the
\* running clock is still to come.
Tick ==
  /\ intervalRef \in activeIntervals
  /\ ~effectPending
  /\ LET now == wall
         deltaTime == DeltaTime(now, lastUpdateRef)
     IN /\ spacecraftTime' = SpacecraftAfterTick(spacecraftTime, deltaTime)
        /\ earthTime' =
             EarthAfterTick(earthTime, deltaTime, currentTimeDilationRef)
        /\ lastUpdateRef' = now
        /\ fwdStage' =
             IF deltaTime = 0 THEN fwdStage
             ELSE IF fwdStage \in {0, 3} /\ deltaTime = Seconds(1)
                  THEN fwdStage + 1
                  ELSE 0 - 1
  /\ History("tick")
  /\ UNCHANGED engineVars
  /\ UNCHANGED <<wall, intervalRef, activeIntervals, currentTimeDilationRef,
                 timeDilationFactor, effectPending, phase, startInstant,
                 backJumps>>

\* The parent renders the clock again with another timeDilationFactor.
\* React runs the effects of one commit before it renders again.
Render ==
  \E g \in Factors :
    /\ phase = "running"
    /\ ~effectPending
    /\ g # timeDilationFactor
    /\ timeDilationFactor' = g
    /\ effectPending' = TRUE
    /\ fwdStage' = IF fwdStage = 1 /\ g = 5 THEN 2 ELSE 0 - 1
    /\ History("render")
    /\ UNCHANGED engineVars
    /\ UNCHANGED <<wall, spacecraftTime, earthTime, intervalRef,
                   activeIntervals, lastUpdateRef, currentTimeDilationRef,
                   phase, startInstant, backJumps>>

\* A factor effect that also rescales the Earth time already accumulated.
FactorEffectRescaling ==
  /\ phase = "running"
  /\ effectPending
  /\ currentTimeDilationRef' = timeDilationFactor
  /\ effectPending' = FALSE
  /\ earthTime' = spacecraftTime * timeDilationFactor
  /\ fwdStage' = IF fwdStage = 2 THEN 3 ELSE 0 - 1
  /\ History("effect")
  /\ UNCHANGED engineVars
  /\ UNCHANGED <<wall, spacecraftTime, intervalRef, activeIntervals,
                 lastUpdateRef, timeDilationFactor, phase, startInstant,
                 backJumps>>

\* useEffect(() => { currentTimeDilationRef.current = timeDilationFactor },
\*           [timeDilationFactor])
FactorEffect ==
  /\ phase = "running"
  /\ effectPending
  /\ currentTimeDilationRef' = timeDilationFactor
  /\ effectPending' = FALSE
  /\ fwdStage' = IF fwdStage = 2 THEN 3 ELSE 0 - 1
  /\ History("effect")
  /\ UNCHANGED engineVars
  /\ UNCHANGED <<wall, spacecraftTime, earthTime, intervalRef,
                 activeIntervals, lastUpdateRef, timeDilationFactor, phase,
                 startInstant, backJumps>>

\* A reset that zeroes the displays and forgets lastUpdateRef.
ResetClocksKeepingLastUpdate ==
  /\ phase = "running"
  /\ ~effectPending
  /\ spacecraftTime' = 0
  /\ earthTime' = 0
  /\ startInstant' = wall
  /\ fwdStage' = 0 - 1
  /\ History("reset")
  /\ UNCHANGED engineVars
  /\ UNCHANGED <<wall, intervalRef, activeIntervals, lastUpdateRef,
                 currentTimeDilationRef, timeDilationFactor, effectPending,
                 phase, backJumps>>

\* resetClocks, the Reset button's onClick: a task of its own, as Tick is
ResetClocks ==
  /\ phase = "running"
  /\ ~effectPending
  /\ spacecraftTime' = 0
  /\ earthTime' = 0
  /\ lastUpdateRef' = wall
  /\ startInstant' = wall
  /\ fwdStage' = 0 - 1
  /\ History("reset")
  /\ UNCHANGED engineVars
  /\ UNCHANGED <<wall, intervalRef, activeIntervals, currentTimeDilationRef,
                 timeDilationFactor, effectPending, phase, backJumps>>

\* The cleanup of the [] effect: clearInterval(intervalRef.current).  The
\* unmount is a task of its own, as Tick is.
Unmount ==
  /\ phase = "running"
  /\ ~effectPending
  /\ activeIntervals' =
       IF intervalRef # NoInterval THEN activeIntervals \ {intervalRef}
       ELSE activeIntervals
  /\ phase' = "unmounted"
  /\ History("unmount")
  /\ UNCHANGED engineVars
  /\ UNCHANGED <<wall, spacecraftTime, earthTime, intervalRef, lastUpdateRef,
                 currentTimeDilationRef, timeDilationFactor, effectPending,
                 startInstant, backJumps, fwdStage>>

\* ---- App and the direct callers of relativity.ts --------------------------

\* Slider positions: speed / 2 is 0, 1/2, 3/5, 4/5 and 1.
Speeds == {Num(0), Num(1), Fin(6, 5), Fin(8, 5), Num(2)}
Destinations == DOMAIN ASTRONOMICAL_DISTANCES

\* Arguments of the direct calls.
Velocities ==
  {Fin(0 - 3, 5), Num(0), Fin(1, 2), Fin(3, 5), Fin(4, 5), Num(1), Fin(5, 4)}
\* Arguments of calculateLorentzFactor called on its own: fractions whose
\* factor is a fraction as well (3/5, 4/5, 24/25) and fractions where the
\* root is rounded (1/10, 1/2, 9/10).
LorentzVelocities == Velocities \cup {Fin(1, 10), Fin(9, 10), Fin(24, 25)}
RestMasses == {Num(0 - 2), Num(0), Num(3)}
ProperValues == {Num(0), Num(1), Fin(5, 2)}
Distances == {Num(0 - 1), Num(0), Fin(424, 100), Num(5)}
\* Fractions whose Lorentz factor is handed back to velocityFromLorentzFactor.
RoundTripVelocities ==
  {Num(0), Fin(1, 2), Fin(3, 5), Fin(4, 5), Fin(9, 10), Fin(24, 25)}
\* Arguments of velocityFromLorentzFactor: chosen values on both sides of 1,
\* and what calculateLorentzFactor returned for RoundTripVelocities.
LorentzFactors ==
  {Fin(1, 2), Num(1), Fin(5, 4), Fin(5, 3), Num(2)}
    \cup {calculateLorentzFactor(v).value : v \in RoundTripVelocities}
\* In days: -182.625, 0, 0.36525, 0.999, 1, 3.6525, 30.4375, 30.44, 182.625,
\* 365.25, 913.125.
Durations ==
  {Fin(0 - 1, 2), Num(0), Fin(1, 1000), Fin(999, 365250), Fin(4, 1461),
   Fin(1, 100), Fin(1, 12), Fin(3044, 36525), Fin(1, 2), Num(1), Fin(5, 2),
   PosInfinity, NaN}

\* The first render of App: speed 0, PROXIMA_CENTAURI.
EngineInit ==
  /\ call = [fn |-> "App",
             args |-> <<InitialSpeed,
                        ASTRONOMICAL_DISTANCES[InitialDestination]>>]
  /\ ret = Journey(InitialSpeed, InitialDestination)

Init == ClockInit /\ EngineInit

\* A render of App after handleRangeChange or handleDestinationChange: every
\* pair of a slider position and a destination can be App's state.  A throw
\* in the render is a thrown result.
AppRender ==
  \E speed \in Speeds, selectedDestination \in Destinations :
    /\ call' = [fn |-> "App",
                args |-> <<speed, ASTRONOMICAL_DISTANCES[selectedDestination]>>]
    /\ ret' = Journey(speed, selectedDestination)
    /\ UNCHANGED clockVars

CallLorentzFactor ==
  \E v \in LorentzVelocities :
    /\ call' = [fn |-> "calculateLorentzFactor", args |-> <<v>>]
    /\ ret' = calculateLorentzFactor(v)
    /\ UNCHANGED clockVars

CallTimeDilation ==
  \E t \in ProperValues, v \in Velocities :
    /\ call' = [fn |-> "calculateTimeDilation", args |-> <<t, v>>]
    /\ ret' = calculateTimeDilation(t, v)
    /\ UNCHANGED clockVars

CallLengthContraction ==
  \E l \in ProperValues, v \in Velocities :
    /\ call' = [fn |-> "calculateLengthContraction", args |-> <<l, v>>]
    /\ ret' = calculateLengthContraction(l, v)
    /\ UNCHANGED clockVars

CallRelativisticMomentum ==
  \E m \in RestMasses, v \in Velocities :
    /\ call' = [fn |-> "calculateRelativisticMomentum", args |-> <<m, v>>]
    /\ ret' = calculateRelativisticMomentum(m, v)
    /\ UNCHANGED clockVars

CallRelativisticKineticEnergy ==
  \E m \in RestMasses, v \in Velocities :
    /\ call' =
         [fn |-> "calculateRelativisticKineticEnergy", args |-> <<m, v>>]
    /\ ret' = calculateRelativisticKineticEnergy(m, v)
    /\ UNCHANGED clockVars

CallTotalRelativisticEnergy ==
  \E m \in RestMasses, v \in Velocities :
    /\ call' = [fn |-> "calculateTotalRelativisticEnergy", args |-> <<m, v>>]
    /\ ret' = calculateTotalRelativisticEnergy(m, v)
    /\ UNCHANGED clockVars

CallVelocityFromLorentzFactor ==
  \E g \in LorentzFactors :
    /\ call' = [fn |-> "velocityFromLorentzFactor", args |-> <<g>>]
    /\ ret' = velocityFromLorentzFactor(g)
    /\ UNCHANGED clockVars

CallAllEffectsWithDistance ==
  \E v \in Velocities, d \in Distances :
    /\ call' = [fn |-> "calculateAllEffectsWithDistance", args |-> <<v, d>>]
    /\ ret' = calculateAllEffectsWithDistance(v, d)
    /\ UNCHANGED clockVars

CallFormatTime ==
  \E t \in Durations :
    /\ call' = [fn |-> "formatTime", args |-> <<t>>]
    /\ ret' = Ok(formatTime(t))
    /\ UNCHANGED clockVars

Next ==
  \/ ClockAdvance
  \/ Mount
  \/ Tick
  \/ Render
  \/ FactorEffect
  \/ ResetClocks
  \/ Unmount

\* The clock, with App and the engine left as they start.
Spec == Init /\ [][Next]_vars

EngineNext ==
  \/ AppRender
  \/ CallLorentzFactor
  \/ CallTimeDilation
  \/ CallLengthContraction
  \/ CallRelativisticMomentum
  \/ CallRelativisticKineticEnergy
  \/ CallTotalRelativisticEnergy
  \/ CallVelocityFromLorentzFactor
  \/ CallAllEffectsWithDistance
  \/ CallFormatTime

\* The clock as App first renders it: its timeDilationFactor is the Lorentz
\* factor of speed 0.
AppFirstRender == Init /\ timeDilationFactor = 1

\* App and the engine, with the clock left as first rendered.
EngineSpec == AppFirstRender /\ [][EngineNext]_vars

\* ---- the clock's claims --------------------------------------------------

\* C1: a change of the dilation factor (the render with the new prop and the
\* effect that copies it into the ref) leaves both accumulators and
\* lastUpdateRef as they were, and a tick scales only its own delta by the
\* factor in the ref: from a fresh start at factor 2, a tick of 1 s gives
\* (1, 2), and after the factor became 5 a second tick of 1 s gives (2, 7).
C1_FactorChangeIsForwardOnly ==
  /\ op \in {"render", "effect"} =>
        /\ spacecraftTime = pre.spacecraftTime
        /\ earthTime = pre.earthTime
        /\ lastUpdateRef = pre.lastUpdateRef
  /\ op = "tick" =>
        earthTime - pre.earthTime =
          (spacecraftTime - pre.spacecraftTime) * currentTimeDilationRef
  /\ fwdStage = 1 => spacecraftTime = Seconds(1) /\ earthTime = Seconds(2)
  /\ fwdStage \in {2, 3} =>
        spacecraftTime = Seconds(1) /\ earthTime = Seconds(2)
  /\ fwdStage = 4 => spacecraftTime = Seconds(2) /\ earthTime = Seconds(7)

C1_Witness ==
  /\ fwdStage = 4
  /\ op = "tick"
  /\ currentTimeDilationRef = 5

\* C2: a tick whose timestamp lies before lastUpdateRef counts as a delta of
\* 0: neither accumulator is smaller after it than before it.
C2_NonMonotonicTickIsClamped ==
  (op = "tick" /\ pre.now < pre.lastUpdateRef) =>
    /\ spacecraftTime >= pre.spacecraftTime
    /\ earthTime >= pre.earthTime

\* C3: a tick at now >= lastUpdateRef adds delta = now - lastUpdateRef to the
\* traveler's time and delta * factor to the observer's, sets lastUpdateRef
\* to now and leaves the factor alone.
C3_TickAccumulates ==
  (op = "tick" /\ pre.now >= pre.lastUpdateRef) =>
    /\ spacecraftTime = pre.spacecraftTime + (pre.now - pre.lastUpdateRef)
    /\ earthTime = pre.earthTime
         + (pre.now - pre.lastUpdateRef) * pre.currentTimeDilationRef
    /\ lastUpdateRef = pre.now
    /\ currentTimeDilationRef = pre.currentTimeDilationRef

C3_Witness ==
  /\ op = "tick"
  /\ pre.now > pre.lastUpdateRef
  /\ pre.spacecraftTime > 0
  /\ currentTimeDilationRef = 5
  /\ earthTime > pre.earthTime

\* C4: with every factor >= 1 (all of Factors), the observer's time is never
\* behind the traveler's.
C4_ObserverNotBehindTraveler ==
  earthTime >= spacecraftTime

\* C5: a reset leaves both accumulators at 0, sets lastUpdateRef to the
\* instant of the reset and leaves the factor alone; the first tick after a
\* reset at r, at t >= r, shows t - r as the traveler's time.
C5_ResetStartsAfresh ==
  /\ op = "reset" =>
        /\ spacecraftTime = 0
        /\ earthTime = 0
        /\ lastUpdateRef = pre.now
        /\ startInstant = pre.now
        /\ currentTimeDilationRef = pre.currentTimeDilationRef
  /\ (op = "tick" /\ pre.op = "reset" /\ pre.now >= startInstant) =>
        spacecraftTime = pre.now - startInstant

C5_Witness ==
  /\ op = "tick"
  /\ pre.op = "reset"
  /\ startInstant > 0
  /\ pre.now > startInstant
  /\ spacecraftTime > 0

\* C10: the displayed average ratio is earthTime / spacecraftTime when
\* spacecraftTime is not 0, is 1 when it is 0, and is never Infinity or NaN.
C10_AverageRatioIsDefined ==
  LET shown == AccumulatedTimeRatio(earthTime, spacecraftTime)
  IN /\ spacecraftTime # 0 =>
          SameNumber(shown, Quotient(earthTime, spacecraftTime))
     /\ spacecraftTime = 0 => SameNumber(shown, Quotient(1, 1))
     /\ shown.kind = "finite"

\* C11: a tick whose timestamp is not before lastUpdateRef leaves neither
\* accumulator smaller than it was, whatever factor changes (to values >= 0)
\* came before it.
C11_AccumulatorsNonDecreasing ==
  (op = "tick" /\ pre.now >= pre.lastUpdateRef) =>
    /\ spacecraftTime >= pre.spacecraftTime
    /\ earthTime >= pre.earthTime

C11_Witness ==
  /\ op = "tick"
  /\ pre.op = "effect"
  /\ pre.now > pre.lastUpdateRef
  /\ pre.spacecraftTime > 0
  /\ spacecraftTime > pre.spacecraftTime
  /\ earthTime > pre.earthTime

C21_TravelerTimeIsWallClockTime ==
  backJumps = 0 =>
    /\ spacecraftTime = lastUpdateRef - startInstant
    /\ spacecraftTime >= 0
    /\ spacecraftTime <= wall - startInstant
    /\ op = "tick" =>
          spacecraftTime - pre.spacecraftTime = pre.now - pre.lastUpdateRef
    /\ op \in {"render", "effect"} => spacecraftTime = pre.spacecraftTime

C21_Witness ==
  /\ backJumps = 0
  /\ op = "tick"
  /\ pre.op = "effect"
  /\ startInstant > 0
  /\ pre.spacecraftTime > 0
  /\ pre.earthTime = 2 * pre.spacecraftTime
  /\ currentTimeDilationRef = 5
  /\ spacecraftTime = lastUpdateRef - startInstant
  /\ spacecraftTime > pre.spacecraftTime

\* ---- the engine's claims -------------------------------------------------

\* The last step was a journey at velocity 0 over a positive distance: App's
\* render with the slider at 0, or the same call made directly.
ZeroVelocityJourney ==
  \/ /\ call.fn = "App"
     /\ SpeedFraction(call.args[1]) = Num(0)
     /\ Lt(Num(0), call.args[2])
  \/ /\ call.fn = "calculateAllEffectsWithDistance"
     /\ call.args[1] = Num(0)
     /\ Lt(Num(0), call.args[2])

VelocityCalls ==
  {"calculateLorentzFactor", "calculateTimeDilation",
   "calculateLengthContraction", "calculateRelativisticMomentum",
   "calculateRelativisticKineticEnergy", "calculateTotalRelativisticEnergy",
   "calculateAllEffectsWithDistance"}

\* the velocity fraction among the arguments of a call
VelocityArgument ==
  IF call.fn \in {"calculateLorentzFactor", "calculateAllEffectsWithDistance"}
  THEN call.args[1] ELSE call.args[2]

\* C7: a call with v < 0 or v >= 1 throws and returns no value; a call with
\* 0 < v < 1 returns a value.
C7_VelocityRangeIsChecked ==
  call.fn \in VelocityCalls =>
    /\ (Lt(VelocityArgument, Num(0)) \/ Ge(VelocityArgument, Num(1))) =>
          ret.threw /\ ret.value = NoValue
    /\ (Lt(Num(0), VelocityArgument) /\ Lt(VelocityArgument, Num(1))) =>
          ~ret.threw /\ ret.value # NoValue

C7_Witness ==
  /\ call.fn = "calculateAllEffectsWithDistance"
  /\ call.args = <<Num(1), Num(5)>>
  /\ ret.threw

\* C8: a negative rest mass makes the momentum and energy functions throw,
\* and a distance <= 0 makes the journey throw.
C8_NegativeQuantitiesAreRejected ==
  /\ (/\ call.fn \in {"calculateRelativisticMomentum",
                       "calculateRelativisticKineticEnergy",
                       "calculateTotalRelativisticEnergy"}
      /\ Lt(call.args[1], Num(0))) => ret.threw
  /\ (/\ call.fn = "calculateAllEffectsWithDistance"
      /\ Ge(Num(0), call.args[2])) => ret.threw

Present(component) == component.kind # "absent"

\* C9: formatTime throws on a negative duration, and no component of a
\* result it returns is negative.
C9_NoNegativeComponent ==
  call.fn = "formatTime" =>
    /\ Lt(call.args[1], Num(0)) => ret.threw
    /\ ~ret.threw =>
          \A component \in {ret.value.years, ret.value.months,
                             ret.value.days, ret.value.hours} :
            Present(component) => ~Lt(component, Num(0))


\* C13: for every slider position (0 <= speed <= 2) the fraction App hands to
\* calculateAllEffectsWithDistance and to the clock is speed / 2 when that is
\* below 1 and the clamp value otherwise; it lies in [0, 1), and App's render
\* does not throw.
C13_SliderFractionIsBelowOne ==
  call.fn = "App" =>
    LET speed == call.args[1]
        passed == SpeedFraction(speed)
    IN /\ Ge(speed, Num(0)) /\ Ge(Num(2), speed)
       /\ passed = IF Lt(Div(speed, Num(2)), Num(1)) THEN Div(speed, Num(2))
                   ELSE ClampedSpeedFraction
       /\ Ge(passed, Num(0))
       /\ Lt(passed, Num(1))
       /\ ~ret.threw
       /\ ret.value.velocityFraction = passed

C13_Witness ==
  /\ call.fn = "App"
  /\ call.args[1] = Num(2)
  /\ ~ret.threw
  /\ ret.value.velocityFraction = ClampedSpeedFraction
  /\ Lt(Num(1), ret.value.lorentzFactor)


\* the components of the last result that are populated
Populated ==
  {name \in {"years", "months", "days", "hours"} : Present(ret.value[name])}

\* C14: for years >= 0 formatTime takes one branch by magnitude: years >= 1
\* gives years only; otherwise, with days = years * 365.25, days >= 30.44
\* gives months, days and hours, 1 <= days < 30.44 gives days and hours, and
\* days < 1 gives hours only, to one decimal place (0 for 0 years).
C14_OneBranchByMagnitude ==
  (call.fn = "formatTime" /\ Ge(call.args[1], Num(0))) =>
    LET years == call.args[1]
        days == Mul(years, DAYS_PER_YEAR)
        hours == ret.value.hours
    IN /\ ~ret.threw
       /\ Ge(years, Num(1)) =>
             Populated = {"years"} /\ ret.value.years = years
       /\ (Lt(years, Num(1)) /\ Ge(days, DAYS_PER_MONTH)) =>
             Populated = {"months", "days", "hours"}
       /\ (Ge(days, Num(1)) /\ Lt(days, DAYS_PER_MONTH)) =>
             Populated = {"days", "hours"}
       /\ Lt(days, Num(1)) =>
             /\ Populated = {"hours"}
             /\ Mul(hours, Num(10)) = Floor(Mul(hours, Num(10)))
             /\ Ge(Fin(1, 20), Sub(hours, Mul(days, Num(HOURS_PER_DAY))))
             /\ Ge(Fin(1, 20), Sub(Mul(days, Num(HOURS_PER_DAY)), hours))
       /\ years = Num(0) => Populated = {"hours"} /\ hours = Num(0)

C14_Witness ==
  /\ call.fn = "formatTime"
  /\ call.args[1] = Fin(1, 12)
  /\ Populated = {"days", "hours"}
  /\ ret.value.days = Num(30)


\* The last step computed a journey: App's render or the direct call.
JourneyCalls == {"App", "calculateAllEffectsWithDistance"}

\* the velocity fraction of that journey
JourneyVelocity ==
  IF call.fn = "App" THEN SpeedFraction(call.args[1]) ELSE call.args[1]

\* C15: for 0 < v < 1 and d > 0 the journey is consistent with the one
\* g = calculateLorentzFactor(v): timeDilationFactor = g,
\* lengthContractionFactor = 1 / g, properDistance = d, contractedDistance =
\* d / g, coordinateTime = d / v, properTime = coordinateTime / g; so
\* coordinateTime >= properTime and contractedDistance <= properDistance.
C15_JourneyIsConsistent ==
  (/\ call.fn \in JourneyCalls
   /\ Lt(Num(0), JourneyVelocity) /\ Lt(JourneyVelocity, Num(1))
   /\ Lt(Num(0), call.args[2])) =>
    LET v == JourneyVelocity
        d == call.args[2]
        g == calculateLorentzFactor(v).value
        journey == ret.value
    IN /\ ~ret.threw
       /\ journey.velocityFraction = v
       /\ journey.lorentzFactor = g
       /\ journey.timeDilationFactor = g
       /\ journey.lengthContractionFactor = Div(Num(1), g)
       /\ journey.properDistance = d
       /\ journey.contractedDistance = Div(d, g)
       /\ journey.coordinateTime = Div(d, v)
       /\ journey.properTime = Div(journey.coordinateTime, g)
       /\ Ge(journey.coordinateTime, journey.properTime)
       /\ Ge(journey.properDistance, journey.contractedDistance)

C15_Witness ==
  /\ call.fn = "calculateAllEffectsWithDistance"
  /\ call.args = <<Fin(3, 5), Num(5)>>
  /\ ret.value.contractedDistance = Num(4)
  /\ ret.value.coordinateTime = Fin(25, 3)
  /\ ret.value.properTime = Fin(20, 3)


Tolerance == Fin(1, SqrtPrecision)

C19_MonthsBranchDecomposesTotal ==
  (/\ call.fn = "formatTime"
   /\ Lt(call.args[1], Num(1))
   /\ Ge(Mul(call.args[1], DAYS_PER_YEAR), DAYS_PER_MONTH)) =>
    LET totalDays == Mul(call.args[1], DAYS_PER_YEAR)
        inMonths == Mul(ret.value.months, DAYS_PER_MONTH)
        recombined ==
          Add(Add(inMonths, ret.value.days),
              Div(ret.value.hours, Num(HOURS_PER_DAY)))
    IN /\ ret.value.months = Floor(Div(totalDays, DAYS_PER_MONTH))
       /\ ret.value.days = Floor(Sub(totalDays, inMonths))
       /\ Ge(totalDays, recombined)
       /\ Lt(totalDays, Add(recombined, Fin(1, HOURS_PER_DAY)))


\* The last step was formatTime on less than a day, and only hours came back.
HoursOnlyResult ==
  /\ call.fn = "formatTime"
  /\ Lt(Mul(call.args[1], DAYS_PER_YEAR), Num(1))
  /\ Populated = {"hours"}

\* C22, as claimed: an hours-only result has hours < 24.
C22_HoursOnlyIsBelowOneDay ==
  HoursOnlyResult => Lt(ret.value.hours, Num(HOURS_PER_DAY))

\* C22, amended: an hours-only result has hours <= 24, and hours = 24 for
\* the durations of 23.95 hours and more, which round up to 24.0; below
\* 23.95 hours the component is less than 24.
C22_HoursOnlyIsAtMostOneDay ==
  HoursOnlyResult =>
    LET exactHours ==
          Mul(Mul(call.args[1], DAYS_PER_YEAR), Num(HOURS_PER_DAY))
    IN /\ Ge(Num(HOURS_PER_DAY), ret.value.hours)
       /\ ret.value.hours = Num(HOURS_PER_DAY) <=>
             Ge(exactHours, Fin(2395, 100))
       /\ Ge(Fin(1, 20), Sub(ret.value.hours, exactHours))

C22_Witness ==
  /\ HoursOnlyResult
  /\ call.args[1] = Fin(999, 365250)
  /\ ret.value.hours = Num(HOURS_PER_DAY)

====
